---- MODULE Spec2Model ----
(***************************************************************************)
(* Model of the checkout core of viur-shop:                                *)
(*   src/src/viur/shop/modules/order.py     (Order lifecycle)              *)
(*   src/src/viur/shop/modules/shipping.py  (Shipping resolver)            *)
(*                                                                         *)
(* The specifications share the variables:                                 *)
(*   Spec       order_add / checkout_start / checkout_order as requests    *)
(*              that load, validate and persist in separate steps          *)
(*   SpecValid  can_checkout / can_order applied to arbitrary order skels  *)
(*   SpecShip   shipping resolution and set_shipping_to_cart               *)
(*   SpecAdd    order_add with its arguments on record                     *)
(*   SpecFreeze one order through checkout while its cart changes          *)
(*   SpecTree   the work-queue traversal over arbitrary cart trees         *)
(***************************************************************************)
EXTENDS Integers, Sequences, FiniteSets, TLC

VARIABLES orders, req, now, calls, okOrder, sessionCart, addRes,
          vskel, vres,
          parent, leafConfig, cost, applic, cartShipping, shipRes,
          cartTotal, addArgs,
          walkPc, walkStart, walkQueue, walkConfigs,
          dequeued, inspected, dedupRes, availRes

orderVars == <<orders, req, now, calls, okOrder, sessionCart, addRes>>
validVars == <<vskel, vres>>
shipVars  == <<parent, leafConfig, cost, applic, cartShipping, shipRes>>
auxVars   == <<cartTotal, addArgs>>
treeVars  == <<walkPc, walkStart, walkQueue, walkConfigs,
               dequeued, inspected, dedupRes, availRes>>
vars == <<orderVars, validVars, shipVars, auxVars, treeVars>>

(***************************************************************************)
(* Bounds                                                                  *)
(***************************************************************************)
MaxCalls == 2
MaxTicks == 1

(***************************************************************************)
(* Values                                                                  *)
(***************************************************************************)
None      == "None"
_sentinel == "_sentinel"
NoUid     == <<>>

Falsy(v) == v \in {None, ""}

OrderKeys == {"o1", "o2"}
Requests  == {"r1", "r2"}

\* cart nodes: c1 and c2 are cart roots, c3 and c4 are sub-carts
RootCarts == {"c1", "c2"}
SubCarts  == {"c3", "c4"}
CartNodes == RootCarts \cup SubCarts

\* cart_skel["total"] as the cart store holds it
CartTotal(c) == cartTotal[c]

\* addresses and their address_type
AddressKeys == {"aBill", "aShip"}
BILLING     == "billing"
AddressType(a) == IF a = "aBill" THEN BILLING ELSE "shipping"

\* the clock reading of time.time(), in tenths of a second
StartTime == 17304

(***************************************************************************)
(* Payment providers (self.shop.payment_providers): name and the error     *)
(* lists their can_checkout / can_order report.                            *)
(***************************************************************************)
payment_providers ==
    << [name |-> "prepay",  can_checkout |-> <<>>, can_order |-> <<>>],
       [name |-> "invoice", can_checkout |-> <<"pp: no billing address">>,
                            can_order    |-> <<"pp: not confirmed", "pp: limit">>] >>

ProviderNames == {"prepay", "invoice", "unknown"}

LookupError == [raised |-> TRUE, errors |-> <<>>]

\* lookup that falls back to the first provider for an unknown name
get_payment_provider_by_name_Default(payment_provider_name) ==
    LET hits == {i \in 1..Len(payment_providers) :
                    payment_providers[i].name = payment_provider_name}
    IN  IF hits = {} THEN 1
        ELSE CHOOSE i \in hits : \A j \in hits : i <= j

\* index of the first provider whose name matches, 0 if none (LookupError)
get_payment_provider_by_name(payment_provider_name) ==
    LET hits == {i \in 1..Len(payment_providers) :
                    payment_providers[i].name = payment_provider_name}
    IN  IF hits = {} THEN 0
        ELSE CHOOSE i \in hits : \A j \in hits : i <= j

(***************************************************************************)
(* Order skeleton                                                          *)
(***************************************************************************)
NoOrder == [exists |-> FALSE, cart |-> None, total |-> 0,
            payment_provider |-> None, billing_address |-> None,
            is_ordered |-> FALSE, order_uid |-> NoUid]

\* can_checkout that stops at the first failing check
can_checkout_FailFast(order_skel) ==
    IF Falsy(order_skel.cart)
    THEN [raised |-> FALSE, errors |-> <<"missing cart">>]
    ELSE IF Falsy(order_skel.payment_provider)
    THEN [raised |-> FALSE, errors |-> <<"missing payment_provider">>]
    ELSE LET i == get_payment_provider_by_name(order_skel.payment_provider)
         IN  IF i = 0 THEN LookupError
             ELSE [raised |-> FALSE, errors |-> payment_providers[i].can_checkout]

\* can_checkout: additive list of errors, or a raised LookupError
can_checkout(order_skel) ==
    LET e1 == IF Falsy(order_skel.cart) THEN <<"missing cart">> ELSE <<>>
    IN  IF Falsy(order_skel.payment_provider)
        THEN [raised |-> FALSE, errors |-> e1 \o <<"missing payment_provider">>]
        ELSE LET i == get_payment_provider_by_name(order_skel.payment_provider)
             IN  IF i = 0 THEN LookupError
                 ELSE [raised |-> FALSE,
                       errors |-> e1 \o payment_providers[i].can_checkout]

\* can_order without the is_ordered check
can_order_NoOrderedCheck(order_skel) ==
    LET e1 == IF Falsy(order_skel.cart) THEN <<"missing cart">> ELSE <<>>
    IN  IF Falsy(order_skel.payment_provider)
        THEN [raised |-> FALSE, errors |-> e1 \o <<"missing payment_provider">>]
        ELSE LET i == get_payment_provider_by_name(order_skel.payment_provider)
             IN  IF i = 0 THEN LookupError
                 ELSE [raised |-> FALSE,
                       errors |-> e1 \o payment_providers[i].can_order]

\* can_order: as can_checkout, preceded by the is_ordered check
can_order(order_skel) ==
    LET e0 == IF order_skel.is_ordered THEN <<"already is_ordered">> ELSE <<>>
        e1 == e0 \o (IF Falsy(order_skel.cart) THEN <<"missing cart">> ELSE <<>>)
    IN  IF Falsy(order_skel.payment_provider)
        THEN [raised |-> FALSE, errors |-> e1 \o <<"missing payment_provider">>]
        ELSE LET i == get_payment_provider_by_name(order_skel.payment_provider)
             IN  IF i = 0 THEN LookupError
                 ELSE [raised |-> FALSE,
                       errors |-> e1 \o payment_providers[i].can_order]

\* freeze_order returns the skeleton untouched
freeze_order(order_skel) == order_skel

(***************************************************************************)
(* assign_uid: str(time.time()) without the ".", a "-" in front of every   *)
(* fourth character, leading/trailing "-" stripped.                        *)
(***************************************************************************)
DigitChar(d) == CASE d = 0 -> "0" [] d = 1 -> "1" [] d = 2 -> "2" [] d = 3 -> "3"
                  [] d = 4 -> "4" [] d = 5 -> "5" [] d = 6 -> "6" [] d = 7 -> "7"
                  [] d = 8 -> "8" [] OTHER -> "9"

RECURSIVE Digits(_)
Digits(n) == IF n < 10 THEN <<DigitChar(n)>>
             ELSE Append(Digits(n \div 10), DigitChar(n % 10))

\* str(time.time()) for a clock reading t in tenths: "<seconds>.<tenth>"
TimeStr(t) == Digits(t \div 10) \o <<".">> \o Digits(t % 10)

\* s.replace(old, "")
RECURSIVE Replace(_, _)
Replace(s, old) ==
    IF s = <<>> THEN <<>>
    ELSE IF Head(s) = old THEN Replace(Tail(s), old)
         ELSE <<Head(s)>> \o Replace(Tail(s), old)

\* "".join(f"-{c}" if i % 4 == 0 else c for i, c in enumerate(s)), i from 0
RECURSIVE Group4(_, _)
Group4(s, i) ==
    IF s = <<>> THEN <<>>
    ELSE (IF i % 4 = 0 THEN <<"-", Head(s)>> ELSE <<Head(s)>>)
         \o Group4(Tail(s), i + 1)

RECURSIVE LStrip(_, _)
LStrip(s, ch) == IF s # <<>> /\ Head(s) = ch THEN LStrip(Tail(s), ch) ELSE s

RECURSIVE RStrip(_, _)
RStrip(s, ch) == IF s # <<>> /\ s[Len(s)] = ch
                 THEN RStrip(SubSeq(s, 1, Len(s) - 1), ch) ELSE s

Strip(s, ch) == RStrip(LStrip(s, ch), ch)

MakeUid(t) == Strip(Group4(Replace(TimeStr(t), "."), 0), "-")

assign_uid(order_skel, t) == [order_skel EXCEPT !.order_uid = MakeUid(t)]

(***************************************************************************)
(* Entity Store: get(key) / put(entity) of a whole entity                  *)
(***************************************************************************)
fromDB(store, key) == store[key]

toDB(store, key, skel) == [store EXCEPT ![key] = skel]

(***************************************************************************)
(* Requests                                                                *)
(***************************************************************************)
NoResult == [status |-> "none", errors |-> <<>>]
Idle == [pc |-> "idle", op |-> "none", key |-> "o1", skel |-> NoOrder,
         result |-> NoResult]

Range(s) == {s[i] : i \in DOMAIN s}

(***************************************************************************)
(* Cart module, as far as the order module uses it                         *)
(***************************************************************************)
is_valid_node(key, root_node) ==
    key \in CartNodes /\ (root_node => key \in RootCarts)

detach_session_cart(session) == None

(***************************************************************************)
(* order_add                                                               *)
(***************************************************************************)
FreeKeys == {k \in OrderKeys : ~orders[k].exists}
NewKey   == CHOOSE k \in FreeKeys : \A j \in FreeKeys :
                (k = "o1") \/ (j # "o1")

\* order_add that writes the order before it checks the billing address
order_add_WriteBeforeCheck(cart_key, payment_provider, billing_address_key) ==
    /\ FreeKeys # {}
    /\ IF ~is_valid_node(cart_key, TRUE)
       THEN /\ addRes' = "ValueError"
            /\ UNCHANGED <<orders, sessionCart>>
       ELSE IF billing_address_key \in AddressKeys
               /\ AddressType(billing_address_key) # BILLING
       THEN /\ addRes' = "InvalidArgumentException"
            /\ orders' = toDB(orders, NewKey,
                              [NoOrder EXCEPT !.exists = TRUE,
                                              !.cart = cart_key,
                                              !.total = CartTotal(cart_key)])
            /\ UNCHANGED sessionCart
       ELSE LET skel == [exists |-> TRUE,
                         cart |-> cart_key,
                         total |-> CartTotal(cart_key),
                         payment_provider |->
                             IF payment_provider = _sentinel THEN None
                             ELSE payment_provider,
                         billing_address |->
                             IF billing_address_key = _sentinel THEN None
                             ELSE billing_address_key,
                         is_ordered |-> FALSE,
                         order_uid |-> NoUid]
            IN  /\ orders' = toDB(orders, NewKey, skel)
                /\ sessionCart' = IF cart_key = sessionCart
                                  THEN detach_session_cart(sessionCart)
                                  ELSE sessionCart
                /\ addRes' = "ok"
    /\ UNCHANGED <<req, now, calls, okOrder, cartTotal, validVars, shipVars,
                   treeVars>>

\* order_add that detaches the session cart before it checks the billing address
order_add_DetachFirst(cart_key, payment_provider, billing_address_key) ==
    /\ FreeKeys # {}
    /\ IF ~is_valid_node(cart_key, TRUE)
       THEN /\ addRes' = "ValueError"
            /\ UNCHANGED <<orders, sessionCart>>
       ELSE IF billing_address_key \in AddressKeys
               /\ AddressType(billing_address_key) # BILLING
       THEN /\ addRes' = "InvalidArgumentException"
            /\ sessionCart' = IF cart_key = sessionCart
                              THEN detach_session_cart(sessionCart)
                              ELSE sessionCart
            /\ UNCHANGED orders
       ELSE LET skel == [exists |-> TRUE,
                         cart |-> cart_key,
                         total |-> CartTotal(cart_key),
                         payment_provider |->
                             IF payment_provider = _sentinel THEN None
                             ELSE payment_provider,
                         billing_address |->
                             IF billing_address_key = _sentinel THEN None
                             ELSE billing_address_key,
                         is_ordered |-> FALSE,
                         order_uid |-> NoUid]
            IN  /\ orders' = toDB(orders, NewKey, skel)
                /\ sessionCart' = IF cart_key = sessionCart
                                  THEN detach_session_cart(sessionCart)
                                  ELSE sessionCart
                /\ addRes' = "ok"
    /\ UNCHANGED <<req, now, calls, okOrder, cartTotal, validVars, shipVars,
                   treeVars>>

\* lines 46-85; the arguments are keys of the right type
order_add(cart_key, payment_provider, billing_address_key) ==
    /\ FreeKeys # {}
    /\ IF ~is_valid_node(cart_key, TRUE)
       THEN /\ addRes' = "ValueError"
            /\ UNCHANGED <<orders, sessionCart>>
       ELSE IF billing_address_key \in AddressKeys
               /\ AddressType(billing_address_key) # BILLING
       THEN /\ addRes' = "InvalidArgumentException"
            /\ UNCHANGED <<orders, sessionCart>>
       ELSE LET skel == [exists |-> TRUE,
                         cart |-> cart_key,
                         total |-> CartTotal(cart_key),
                         payment_provider |->
                             IF payment_provider = _sentinel THEN None
                             ELSE payment_provider,
                         billing_address |->
                             IF billing_address_key = _sentinel THEN None
                             ELSE billing_address_key,
                         is_ordered |-> FALSE,
                         order_uid |-> NoUid]
            IN  /\ orders' = toDB(orders, NewKey, skel)
                /\ sessionCart' = IF cart_key = sessionCart
                                  THEN detach_session_cart(sessionCart)
                                  ELSE sessionCart
                /\ addRes' = "ok"
    /\ UNCHANGED <<req, now, calls, okOrder, cartTotal, validVars, shipVars,
                   treeVars>>

(***************************************************************************)
(* checkout_start / checkout_order, each as load, validate, persist        *)
(***************************************************************************)
\* skel.fromDB(order_key); NotFound when the order does not exist
Load(r, op, order_key) ==
    /\ req[r].pc = "idle"
    /\ calls < MaxCalls
    /\ calls' = calls + 1
    /\ LET skel == fromDB(orders, order_key)
       IN  req' = [req EXCEPT ![r] =
                IF skel.exists
                THEN [pc |-> "loaded", op |-> op, key |-> order_key,
                      skel |-> skel, result |-> NoResult]
                ELSE [pc |-> "done", op |-> op, key |-> order_key,
                      skel |-> NoOrder,
                      result |-> [status |-> "NotFound", errors |-> <<>>]]]
    /\ UNCHANGED <<orders, now, okOrder, sessionCart, addRes, validVars, shipVars, auxVars, treeVars>>

\* outcome of a validation that does not pass
Rejected(r, v) ==
    [req[r] EXCEPT !.pc = "done",
                   !.result = IF v.raised
                              THEN [status |-> "LookupError", errors |-> <<>>]
                              ELSE [status |-> "bad_request", errors |-> v.errors]]

\* checkout_start that goes on to freeze and assign after validation errors
checkout_start_validate_FallThrough(r) ==
    /\ req[r].pc = "loaded"
    /\ req[r].op = "checkout_start"
    /\ LET v == can_checkout(req[r].skel)
       IN  req' = [req EXCEPT ![r] =
                IF v.raised
                THEN Rejected(r, v)
                ELSE [req[r] EXCEPT !.pc = "validated",
                        !.skel = assign_uid(freeze_order(req[r].skel), now)]]
    /\ UNCHANGED <<orders, now, calls, okOrder, sessionCart, addRes,
                   validVars, shipVars, auxVars, treeVars>>

\* checkout_start: can_checkout, then freeze_order and assign_uid
checkout_start_validate(r) ==
    /\ req[r].pc = "loaded"
    /\ req[r].op = "checkout_start"
    /\ LET v == can_checkout(req[r].skel)
       IN  req' = [req EXCEPT ![r] =
                IF v.raised \/ v.errors # <<>>
                THEN Rejected(r, v)
                ELSE [req[r] EXCEPT !.pc = "validated",
                        !.skel = assign_uid(freeze_order(req[r].skel), now)]]
    /\ UNCHANGED <<orders, now, calls, okOrder, sessionCart, addRes,
                   validVars, shipVars, auxVars, treeVars>>

\* checkout_order: can_order, then is_ordered = True
checkout_order_validate(r) ==
    /\ req[r].pc = "loaded"
    /\ req[r].op = "checkout_order"
    /\ LET v == can_order(req[r].skel)
       IN  req' = [req EXCEPT ![r] =
                IF v.raised \/ v.errors # <<>>
                THEN Rejected(r, v)
                ELSE [req[r] EXCEPT !.pc = "validated",
                        !.skel = [req[r].skel EXCEPT !.is_ordered = TRUE]]]
    /\ UNCHANGED <<orders, now, calls, okOrder, sessionCart, addRes,
                   validVars, shipVars, auxVars, treeVars>>

\* skel.toDB() and the JsonResponse(skel)
Persist(r) ==
    /\ req[r].pc = "validated"
    /\ orders' = toDB(orders, req[r].key, req[r].skel)
    /\ req' = [req EXCEPT ![r].pc = "done",
                          ![r].result = [status |-> "ok", errors |-> <<>>]]
    /\ okOrder' = IF req[r].op = "checkout_order"
                  THEN [okOrder EXCEPT ![req[r].key] = @ + 1]
                  ELSE okOrder
    /\ UNCHANGED <<now, calls, sessionCart, addRes, validVars, shipVars, auxVars, treeVars>>

\* the response has been delivered; the worker takes the next call
Return(r) ==
    /\ req[r].pc = "done"
    /\ req' = [req EXCEPT ![r] = Idle]
    /\ UNCHANGED <<orders, now, calls, okOrder, sessionCart, addRes,
                   validVars, shipVars, auxVars, treeVars>>

\* time passes
Tick ==
    /\ now < StartTime + MaxTicks
    /\ now' = now + 1
    /\ UNCHANGED <<orders, req, calls, okOrder, sessionCart, addRes,
                   validVars, shipVars, auxVars, treeVars>>

(***************************************************************************)
(* Cart Tree Manager: an edit of a cart between two calls of the order     *)
(* module changes the cart's total                                         *)
(***************************************************************************)
CartTotals == {10, 11}

cart_mutate(cart_key, total) ==
    /\ \A r \in Requests : req[r].pc \in {"idle", "done"}
    /\ cartTotal[cart_key] # total
    /\ cartTotal' = [cartTotal EXCEPT ![cart_key] = total]
    /\ UNCHANGED <<orderVars, validVars, shipVars, addArgs, treeVars>>

(***************************************************************************)
(* Shipping: cart tree, shipping configurations and their options          *)
(***************************************************************************)
Leaves  == {"l1", "l2"}
Configs == {"sc0", "sc1", "sc2"}
Options == {"s1", "s2", "s3"}

\* shipping_config_skel["shipping"]: the options of a configuration, in order
ConfigShipping(sc) == CASE sc = "sc1" -> <<"s1", "s2">>
                        [] sc = "sc2" -> <<"s3">>
                        [] OTHER -> <<>>

\* shipping_cost of an option that has none
NullCost == -1
Costs    == {NullCost, 0, 3, 5}

\* the order in which a children query lists the entries of the tree
NodeOrder == <<"l1", "c3", "l2", "c4">>

\* cart.get_children(node): the direct children, sub-carts and leaves
get_children(node) ==
    SelectSeq(NodeOrder, LAMBDA x : parent[x] = node)

\* for loop that collects the leaves but does not queue the sub-carts
RECURSIVE VisitChildren_NoRecurse(_, _, _)
VisitChildren_NoRecurse(children, node_queue, all_shipping_configs) ==
    IF children = <<>> THEN <<node_queue, all_shipping_configs>>
    ELSE LET child == Head(children)
         IN  IF child \notin CartNodes /\ leafConfig[child] # None
             THEN VisitChildren_NoRecurse(Tail(children), node_queue,
                                Append(all_shipping_configs, leafConfig[child]))
             ELSE VisitChildren_NoRecurse(Tail(children), node_queue,
                                          all_shipping_configs)

\* one pass of the for loop over the children of a dequeued node
RECURSIVE VisitChildren(_, _, _)
VisitChildren(children, node_queue, all_shipping_configs) ==
    IF children = <<>> THEN <<node_queue, all_shipping_configs>>
    ELSE LET child == Head(children)
         IN  IF child \in CartNodes
             THEN VisitChildren(Tail(children), Append(node_queue, child),
                                all_shipping_configs)
             ELSE IF leafConfig[child] # None
             THEN VisitChildren(Tail(children), node_queue,
                                Append(all_shipping_configs, leafConfig[child]))
             ELSE VisitChildren(Tail(children), node_queue, all_shipping_configs)

\* while node_queue: ... node_queue.pop() takes the right end
RECURSIVE Walk(_, _)
Walk(node_queue, all_shipping_configs) ==
    IF node_queue = <<>> THEN all_shipping_configs
    ELSE LET node == node_queue[Len(node_queue)]
             rest == SubSeq(node_queue, 1, Len(node_queue) - 1)
             r    == VisitChildren(get_children(node), rest, all_shipping_configs)
         IN  Walk(r[1], r[2])

\* no de-duplication: every collected reference is kept
Dedup_KeepAll(configs) == configs

\* list(({sc["key"]: sc for sc in configs}).values()): one entry per key,
\* in the order of the first occurrence of each key
RECURSIVE Dedup(_)
Dedup(configs) ==
    IF configs = <<>> THEN <<>>
    ELSE LET init == SubSeq(configs, 1, Len(configs) - 1)
             last == configs[Len(configs)]
         IN  IF last \in Range(init) THEN Dedup(init)
             ELSE Append(Dedup(init), last)

\* itertools.chain.from_iterable(sc["shipping"] or [] for sc in configs)
RECURSIVE Flatten(_)
Flatten(configs) ==
    IF configs = <<>> THEN <<>>
    ELSE ConfigShipping(Head(configs)) \o Flatten(Tail(configs))

get_shipping_skels_for_cart(cart_key) ==
    Flatten(Dedup(Walk(<<cart_key>>, <<>>)))

\* the candidates without the applicability filter
get_available_shipping_skels_for_cart_NoFilter(cart_key, A) ==
    get_shipping_skels_for_cart(cart_key)

\* the candidates the applicability predicate accepts (A: accepted options)
get_available_shipping_skels_for_cart(cart_key, A) ==
    SelectSeq(get_shipping_skels_for_cart(cart_key), LAMBDA s : s \in A)

\* shipping["dest"]["shipping_cost"] or 0
CostOrZero(s) == IF cost[s] = NullCost \/ cost[s] = 0 THEN 0 ELSE cost[s]

\* min that keeps the last of several smallest elements
RECURSIVE MinFrom_LastOnTies(_, _)
MinFrom_LastOnTies(best, seq) ==
    IF seq = <<>> THEN best
    ELSE IF CostOrZero(Head(seq)) <= CostOrZero(best)
         THEN MinFrom_LastOnTies(Head(seq), Tail(seq))
         ELSE MinFrom_LastOnTies(best, Tail(seq))

\* min(seq, key=...): the first element whose key is the smallest
RECURSIVE MinFrom(_, _)
MinFrom(best, seq) ==
    IF seq = <<>> THEN best
    ELSE IF CostOrZero(Head(seq)) < CostOrZero(best)
         THEN MinFrom(Head(seq), Tail(seq))
         ELSE MinFrom(best, Tail(seq))

PyMin(seq) == MinFrom(Head(seq), Tail(seq))

\* cart.cart_update(cart_key, shipping_key=...): only that field changes
cart_update(cs, cart_key, shipping_key) == [cs EXCEPT ![cart_key] = shipping_key]

NoArgs == [cart_key |-> None, payment_provider |-> None,
           billing_address_key |-> None]

NoAvailRes == [op |-> "none", cart |-> None, status |-> "none", list |-> <<>>]

NoShipRes == [op |-> "none", cart |-> None, key |-> None, status |-> "none",
              chosen |-> None]

\* selection that falls back to the cheapest option for an unknown key
SelectShipping_Fallback(applicable_shippings, shipping_key) ==
    IF applicable_shippings = <<>>
    THEN [status |-> IF shipping_key = None THEN "ValueError" ELSE "NotFound",
          chosen |-> None]
    ELSE IF \E i \in DOMAIN applicable_shippings :
                applicable_shippings[i] = shipping_key
         THEN [status |-> "ok", chosen |-> shipping_key]
         ELSE [status |-> "ok", chosen |-> PyMin(applicable_shippings)]

\* lines 165-177: the cheapest option when no key is given (min of an empty
\* list raises ValueError), else the given key if it is among the applicable
\* options, else NotFound
SelectShipping(applicable_shippings, shipping_key) ==
    IF shipping_key = None
    THEN IF applicable_shippings = <<>>
         THEN [status |-> "ValueError", chosen |-> None]
         ELSE [status |-> "ok", chosen |-> PyMin(applicable_shippings)]
    ELSE IF \E i \in DOMAIN applicable_shippings :
                applicable_shippings[i] = shipping_key
         THEN [status |-> "ok", chosen |-> shipping_key]
         ELSE [status |-> "NotFound", chosen |-> None]

\* A is what is_applicable accepts during the call; a behaviour holds one call
set_shipping_to_cart(cart_key_arg, shipping_key, A) ==
    LET cart_key == IF Falsy(cart_key_arg) THEN sessionCart ELSE cart_key_arg
        res(sel) == [op |-> "set", cart |-> cart_key, key |-> shipping_key,
                     status |-> sel.status, chosen |-> sel.chosen]
    IN  /\ shipRes.op = "none"
        /\ applic' = A
        /\ IF cart_key \notin CartNodes
           THEN \* get_available_shipping_skels_for_cart raises NotFound
                /\ shipRes' = res([status |-> "NotFound", chosen |-> None])
                /\ UNCHANGED cartShipping
           ELSE \* an empty list only builds a NotFound that is never raised
                LET sel == SelectShipping(
                             get_available_shipping_skels_for_cart(cart_key, A),
                             shipping_key)
                IN  /\ shipRes' = res(sel)
                    /\ cartShipping' = IF sel.status = "ok"
                                       THEN cart_update(cartShipping, cart_key,
                                                        sel.chosen)
                                       ELSE cartShipping
        /\ UNCHANGED <<parent, leafConfig, cost, orderVars, validVars,
                       auxVars, treeVars>>

\* result values of choose_shipping_skel_for_article besides an option
NotConfigured == "None"
Unresolvable  == "False"

\* choose that answers None also when no option is applicable
choose_shipping_skel_for_article_NoneForBoth(leaf, A) ==
    LET res(chosen) == [op |-> "choose", cart |-> leaf, key |-> None,
                        status |-> "ok", chosen |-> chosen]
    IN  /\ shipRes.op = "none"
        /\ applic' = A
        /\ IF Falsy(leafConfig[leaf])
           THEN shipRes' = res(NotConfigured)
           ELSE LET applicable_shippings ==
                        SelectSeq(ConfigShipping(leafConfig[leaf]),
                                  LAMBDA s : s \in A)
                IN  IF applicable_shippings = <<>>
                    THEN shipRes' = res(NotConfigured)
                    ELSE shipRes' = res(PyMin(applicable_shippings))
        /\ UNCHANGED <<parent, leafConfig, cost, cartShipping,
                       orderVars, validVars, auxVars, treeVars>>

choose_shipping_skel_for_article(leaf, A) ==
    LET res(chosen) == [op |-> "choose", cart |-> leaf, key |-> None,
                        status |-> "ok", chosen |-> chosen]
    IN  /\ shipRes.op = "none"
        /\ applic' = A
        /\ IF Falsy(leafConfig[leaf])
           THEN shipRes' = res(NotConfigured)
           ELSE LET applicable_shippings ==
                        SelectSeq(ConfigShipping(leafConfig[leaf]),
                                  LAMBDA s : s \in A)
                IN  IF applicable_shippings = <<>>
                    THEN shipRes' = res(Unresolvable)
                    ELSE shipRes' = res(PyMin(applicable_shippings))
        /\ UNCHANGED <<parent, leafConfig, cost, cartShipping,
                       orderVars, validVars, auxVars, treeVars>>

(***************************************************************************)
(* get_shipping_skels_for_cart, one iteration of the while loop per step   *)
(***************************************************************************)
\* lines 107-119: resolve the cart (NotFound if it does not exist), seed the queue
WalkStart(cart_key) ==
    /\ walkPc = "idle"
    /\ shipRes.op = "none"
    /\ availRes.op = "none"
    /\ walkStart' = cart_key
    /\ IF cart_key \in CartNodes
       THEN /\ walkPc' = "walk"
            /\ walkQueue' = <<cart_key>>
       ELSE /\ walkPc' = "NotFound"
            /\ walkQueue' = <<>>
    /\ UNCHANGED <<walkConfigs, dequeued, inspected, dedupRes, availRes,
                   orderVars, validVars, shipVars, auxVars>>

\* lines 120-125: pop a node, queue its sub-carts, collect its leaves' configs
WalkStep ==
    /\ walkPc = "walk"
    /\ walkQueue # <<>>
    /\ LET node == walkQueue[Len(walkQueue)]
           rest == SubSeq(walkQueue, 1, Len(walkQueue) - 1)
           r    == VisitChildren(get_children(node), rest, walkConfigs)
       IN  /\ walkQueue' = r[1]
           /\ walkConfigs' = r[2]
           /\ dequeued' = Append(dequeued, node)
           /\ inspected' = inspected \o
                  SelectSeq(get_children(node), LAMBDA x : x \in Leaves)
    /\ UNCHANGED <<walkPc, walkStart, dedupRes, availRes,
                   orderVars, validVars, shipVars, auxVars>>

\* lines 127-140: the queue is empty, de-duplicate what was collected
WalkFinish ==
    /\ walkPc = "walk"
    /\ walkQueue = <<>>
    /\ walkPc' = "done"
    /\ dedupRes' = Dedup(walkConfigs)
    /\ UNCHANGED <<walkStart, walkQueue, walkConfigs, dequeued, inspected,
                   availRes, orderVars, validVars, shipVars, auxVars>>

\* get_available_shipping_skels_for_cart as a call of its own; A is what
\* is_applicable accepts during the call
GetAvailable(cart_key_arg, A) ==
    LET cart_key == IF Falsy(cart_key_arg) THEN sessionCart ELSE cart_key_arg
    IN  /\ walkPc = "idle"
        /\ shipRes.op = "none"
        /\ availRes.op = "none"
        /\ applic' = A
        /\ availRes' =
             IF cart_key \notin CartNodes
             THEN [op |-> "available", cart |-> cart_key,
                   status |-> "NotFound", list |-> <<>>]
             ELSE [op |-> "available", cart |-> cart_key, status |-> "ok",
                   list |-> get_available_shipping_skels_for_cart(cart_key, A)]
        /\ UNCHANGED <<parent, leafConfig, cost, cartShipping, shipRes,
                       walkPc, walkStart, walkQueue, walkConfigs, dequeued,
                       inspected, dedupRes, orderVars, validVars, auxVars>>

(***************************************************************************)
(* can_checkout / can_order applied to one order skeleton                  *)
(***************************************************************************)
NoVRes == [fn |-> "none", raised |-> FALSE, errors |-> <<>>]

ApplyCanCheckout ==
    /\ vres.fn = "none"
    /\ vres' = [fn |-> "can_checkout"] @@ can_checkout(vskel)
    /\ UNCHANGED <<vskel, orderVars, shipVars, auxVars, treeVars>>

ApplyCanOrder ==
    /\ vres.fn = "none"
    /\ vres' = [fn |-> "can_order"] @@ can_order(vskel)
    /\ UNCHANGED <<vskel, orderVars, shipVars, auxVars, treeVars>>

(***************************************************************************)
(* Initial states                                                          *)
(***************************************************************************)
OrderInit0 ==
    /\ orders = [k \in OrderKeys |-> NoOrder]
    /\ req = [r \in Requests |-> Idle]
    /\ now = StartTime
    /\ calls = 0
    /\ okOrder = [k \in OrderKeys |-> 0]
    /\ sessionCart = "c1"
    /\ addRes = "none"
    /\ cartTotal = [c \in CartNodes |->
                      CASE c = "c1" -> 10 [] c = "c2" -> 20 [] OTHER -> 5]
    /\ addArgs = NoArgs

ValidInit0 ==
    /\ vskel = NoOrder
    /\ vres = NoVRes

TreeInit0 ==
    /\ walkPc = "idle"
    /\ walkStart = None
    /\ walkQueue = <<>>
    /\ walkConfigs = <<>>
    /\ dequeued = <<>>
    /\ inspected = <<>>
    /\ dedupRes = <<>>
    /\ availRes = NoAvailRes

ShipInit0 ==
    /\ TreeInit0
    /\ parent = [x \in SubCarts \cup Leaves |-> "c1"]
    /\ leafConfig = [l \in Leaves |-> None]
    /\ cost = [s \in Options |-> NullCost]
    /\ applic = {}
    /\ cartShipping = [c \in CartNodes |-> None]
    /\ shipRes = NoShipRes

Init == OrderInit0 /\ ValidInit0 /\ ShipInit0

\* every order skeleton the store can hand to the validators
InitValid ==
    /\ OrderInit0
    /\ ShipInit0
    /\ vskel \in [exists : {TRUE},
                  cart : {None, "c1"},
                  total : {10},
                  payment_provider : {None, ""} \cup ProviderNames,
                  billing_address : {None, "aBill"},
                  is_ordered : BOOLEAN,
                  order_uid : {NoUid, MakeUid(StartTime)}]
    /\ vres = NoVRes

\* the cart trees c1 -> (l1, c3 -> l2) and c2 -> c4; c1 may carry an earlier
\* selection
InitShip ==
    /\ OrderInit0
    /\ ValidInit0
    /\ TreeInit0
    /\ parent = [x \in SubCarts \cup Leaves |->
                    CASE x = "l2" -> "c3" [] x = "c4" -> "c2" [] OTHER -> "c1"]
    /\ leafConfig \in [Leaves -> Configs \cup {None}]
    /\ cost \in [Options -> Costs]
    /\ applic = {}
    /\ cartShipping \in {cs \in [CartNodes -> {None, "s1"}] :
                            \A c \in CartNodes \ {"c1"} : cs[c] = None}
    /\ shipRes = NoShipRes

(***************************************************************************)
(* Specifications                                                          *)
(***************************************************************************)
Next ==
    \/ \E c \in CartNodes, p \in {_sentinel, None} \cup ProviderNames,
          b \in {_sentinel, None} \cup AddressKeys :
            order_add(c, p, b) /\ UNCHANGED addArgs
    \/ \E r \in Requests, k \in OrderKeys : Load(r, "checkout_start", k)
    \/ \E r \in Requests, k \in OrderKeys : Load(r, "checkout_order", k)
    \/ \E r \in Requests : checkout_start_validate(r)
    \/ \E r \in Requests : checkout_order_validate(r)
    \/ \E r \in Requests : Persist(r)
    \/ \E r \in Requests : Return(r)
    \/ Tick

Spec == Init /\ [][Next]_vars

NextValid == ApplyCanCheckout \/ ApplyCanOrder

SpecValid == InitValid /\ [][NextValid]_vars

NextShip ==
    \/ \E c \in CartNodes \cup {None, "cX"}, k \in Options \cup {None, "sX"},
          A \in SUBSET Options : set_shipping_to_cart(c, k, A)
    \/ \E l \in Leaves, A \in SUBSET Options :
          choose_shipping_skel_for_article(l, A)

SpecShip == InitShip /\ [][NextShip]_vars

\* cart trees: c3 below a root, c4 below c1 or c3, the leaves below any node
InitTree ==
    /\ OrderInit0
    /\ ValidInit0
    /\ TreeInit0
    /\ parent \in {p \in [SubCarts \cup Leaves -> CartNodes] :
                      p["c3"] \in RootCarts /\ p["c4"] \in {"c1", "c3"}}
    /\ leafConfig \in [Leaves -> Configs \cup {None}]
    /\ cost = [s \in Options |->
                 CASE s = "s1" -> 5 [] s = "s2" -> 3 [] OTHER -> NullCost]
    /\ applic = {}
    /\ cartShipping = [c \in CartNodes |-> None]
    /\ shipRes = NoShipRes

NextTree ==
    \/ \E c \in CartNodes \cup {"cX"} : WalkStart(c)
    \/ WalkStep
    \/ WalkFinish
    \/ \E c \in CartNodes \cup {None, "cX"}, A \in SUBSET Options :
          GetAvailable(c, A)
    \/ \E c \in CartNodes, A \in SUBSET Options :
          /\ walkPc = "idle"
          /\ availRes.op = "none"
          /\ set_shipping_to_cart(c, None, A)

\* a traversal that has started keeps running until its call returns
SpecTree == InitTree /\ [][NextTree]_vars /\ WF_vars(WalkStep \/ WalkFinish)

\* order_add alone, each call's arguments on record; any session cart
InitAdd ==
    /\ ValidInit0
    /\ ShipInit0
    /\ orders = [k \in OrderKeys |-> NoOrder]
    /\ req = [r \in Requests |-> Idle]
    /\ now = StartTime
    /\ calls = 0
    /\ okOrder = [k \in OrderKeys |-> 0]
    /\ sessionCart \in RootCarts \cup {None}
    /\ addRes = "none"
    /\ cartTotal = [c \in CartNodes |->
                      CASE c = "c1" -> 10 [] c = "c2" -> 20 [] OTHER -> 5]
    /\ addArgs = NoArgs

NextAdd ==
    \E c \in CartNodes, p \in {_sentinel, None} \cup ProviderNames,
       b \in {_sentinel, None} \cup AddressKeys :
        /\ order_add(c, p, b)
        /\ addArgs' = [cart_key |-> c, payment_provider |-> p,
                       billing_address_key |-> b]

SpecAdd == InitAdd /\ [][NextAdd]_vars

\* orders of the session cart c1 through checkout_start while c1 is edited
NextFreeze ==
    \/ order_add("c1", "prepay", "aBill") /\ UNCHANGED addArgs
    \/ \E r \in Requests, k \in OrderKeys : Load(r, "checkout_start", k)
    \/ \E r \in Requests : checkout_start_validate(r)
    \/ \E r \in Requests : Persist(r)
    \/ \E r \in Requests : Return(r)
    \/ Tick
    \/ \E t \in CartTotals : cart_mutate("c1", t)

SpecFreeze == Init /\ [][NextFreeze]_vars

(***************************************************************************)
(* Properties of the order lifecycle (checked under Spec)                  *)
(***************************************************************************)
\* the provider is registered and its can_order reports nothing
PassesCanOrder(name) ==
    \E i \in DOMAIN payment_providers :
        payment_providers[i].name = name /\ payment_providers[i].can_order = <<>>

\* request r takes a step out of state pc of operation op
Steps(r, op, pc) == req[r].op = op /\ req[r].pc = pc /\ req'[r] # req[r]

\* C1: for an order with a cart and a provider whose can_order passes, a
\* checkout_order that loads the order before it is finalized validates, sets
\* is_ordered and persists it with an ok response; a checkout_order that loads
\* the order after that (is_ordered already persisted) ends in a bad-request
\* response listing "already is_ordered" and writes nothing.
C1_SecondCheckoutOrderRejected ==
    [][\A r \in Requests :
        /\ ( /\ Steps(r, "checkout_order", "loaded")
             /\ ~Falsy(req[r].skel.cart)
             /\ PassesCanOrder(req[r].skel.payment_provider) )
           => IF req[r].skel.is_ordered
              THEN /\ req'[r].pc = "done"
                   /\ req'[r].result.status = "bad_request"
                   /\ "already is_ordered" \in Range(req'[r].result.errors)
                   /\ orders' = orders
                   /\ okOrder' = okOrder
              ELSE /\ req'[r].pc = "validated"
                   /\ req'[r].skel.is_ordered
        /\ Steps(r, "checkout_order", "validated")
           => /\ orders'[req[r].key].is_ordered
              /\ req'[r].result.status = "ok"
              /\ req'[r].pc = "done"
        /\ Steps(r, "checkout_order", "done") => orders' = orders
      ]_vars

\* C1 witness: one checkout_order succeeded on the order and a later one was
\* answered with the "already is_ordered" failure
C1_Witness ==
    \E r \in Requests :
        /\ req[r].op = "checkout_order"
        /\ req[r].pc = "done"
        /\ req[r].skel.is_ordered
        /\ req[r].result.status = "bad_request"
        /\ "already is_ordered" \in Range(req[r].result.errors)
        /\ okOrder[req[r].key] = 1
        /\ orders[req[r].key].is_ordered

\* C2: at most one checkout_order call succeeds on an order, however the
\* load, validate and persist steps of concurrent calls interleave.
C2_AtMostOneCheckoutOrderSucceeds ==
    \A k \in OrderKeys : okOrder[k] <= 1

\* C3: once the persisted order_uid of an order is set, no step changes it.
C3_OrderUidNeverReassigned ==
    [][\A k \in OrderKeys :
          orders[k].order_uid # NoUid
            => orders'[k].order_uid = orders[k].order_uid]_vars

\* C4: a checkout_start that loads a finalized order is rejected, and no
\* persisted field of a finalized order changes.
C4_ImmutableAfterFinalization ==
    [][/\ \A r \in Requests :
            (Steps(r, "checkout_start", "loaded") /\ req[r].skel.is_ordered)
              => /\ req'[r].pc = "done"
                 /\ req'[r].result.status = "bad_request"
       /\ \A k \in OrderKeys :
            orders[k].is_ordered => orders'[k] = orders[k]]_vars

\* C5: a persisted is_ordered = true never returns to false.
C5_IsOrderedNeverReset ==
    [][\A k \in OrderKeys :
          orders[k].is_ordered => orders'[k].is_ordered]_vars

\* C6: an order is finalized only after checkout_start assigned its uid:
\* is_ordered implies that order_uid is set.
C6_FinalizedImpliesStarted ==
    \A k \in OrderKeys :
        orders[k].is_ordered => orders[k].order_uid # NoUid

\* some check of can_checkout fails on the skeleton (no lookup error)
FailsCanCheckout(skel) ==
    \/ Falsy(skel.cart)
    \/ Falsy(skel.payment_provider)
    \/ \E i \in DOMAIN payment_providers :
          /\ payment_providers[i].name = skel.payment_provider
          /\ payment_providers[i].can_checkout # <<>>

\* C7: when a check of can_checkout fails, checkout_start answers with a
\* bad-request response carrying the errors, assigns no order_uid and writes
\* nothing; for an order with a cart and no payment provider the errors are
\* exactly <<"missing payment_provider">>.
C7_CheckoutStartRejectsWithoutTransition ==
    [][\A r \in Requests :
        Steps(r, "checkout_start", "loaded") =>
          /\ ( FailsCanCheckout(req[r].skel)
               /\ ( Falsy(req[r].skel.payment_provider)
                    \/ get_payment_provider_by_name(req[r].skel.payment_provider) # 0 ) )
             => /\ req'[r].pc = "done"
                /\ req'[r].result.status = "bad_request"
                /\ req'[r].result.errors # <<>>
                /\ req'[r].skel = req[r].skel
                /\ orders' = orders
          /\ ( ~Falsy(req[r].skel.cart) /\ req[r].skel.payment_provider = None )
             => req'[r].result.errors = <<"missing payment_provider">>
          /\ req'[r].result.status = "bad_request"
             => /\ FailsCanCheckout(req[r].skel)
                /\ orders' = orders
      ]_vars

\* C7 witness: checkout_start on an order created without a payment provider
\* was answered with <<"missing payment_provider">>, the order has no uid
C7_Witness ==
    \E r \in Requests :
        /\ req[r].op = "checkout_start"
        /\ req[r].pc = "done"
        /\ req[r].result.status = "bad_request"
        /\ req[r].result.errors = <<"missing payment_provider">>
        /\ orders[req[r].key].exists
        /\ orders[req[r].key].payment_provider = None
        /\ orders[req[r].key].order_uid = NoUid

(***************************************************************************)
(* Properties of the validators (checked under SpecValid)                  *)
(***************************************************************************)
\* the errors the selected provider reports for validator fn
ProviderErrors(name, fn) ==
    LET hits == {i \in DOMAIN payment_providers : payment_providers[i].name = name}
    IN  IF hits = {} THEN <<>>
        ELSE LET i == CHOOSE j \in hits : TRUE
             IN  IF fn = "can_order" THEN payment_providers[i].can_order
                 ELSE payment_providers[i].can_checkout

BoolToNat(b) == IF b THEN 1 ELSE 0

\* C8: the list can_checkout / can_order returns has one entry per failing
\* check: "missing cart" iff the cart reference is absent, "missing
\* payment_provider" iff no provider is selected, every error of a selected
\* provider whatever else failed, and for can_order "already is_ordered" iff
\* is_ordered is true.
C8_ValidationIsAdditive ==
    (vres.fn # "none" /\ ~vres.raised) =>
        LET errs == Range(vres.errors)
            pp   == ProviderErrors(vskel.payment_provider, vres.fn)
        IN  /\ ("missing cart" \in errs) <=> Falsy(vskel.cart)
            /\ ("missing payment_provider" \in errs)
                  <=> Falsy(vskel.payment_provider)
            /\ ~Falsy(vskel.payment_provider) => Range(pp) \subseteq errs
            /\ vres.fn = "can_order"
                  => (("already is_ordered" \in errs) <=> vskel.is_ordered)
            /\ Len(vres.errors) =
                  BoolToNat(Falsy(vskel.cart))
                  + BoolToNat(Falsy(vskel.payment_provider))
                  + BoolToNat(vres.fn = "can_order" /\ vskel.is_ordered)
                  + (IF Falsy(vskel.payment_provider) THEN 0 ELSE Len(pp))

\* C8 witness: can_checkout reported a missing cart together with the errors
\* of the selected provider
C8_Witness ==
    /\ vres.fn = "can_checkout"
    /\ ~vres.raised
    /\ Falsy(vskel.cart)
    /\ vskel.payment_provider = "invoice"
    /\ Len(vres.errors) = 2

(***************************************************************************)
(* Properties of the shipping resolver (checked under SpecShip)            *)
(***************************************************************************)
\* the nodes on the path from x up to its root, x included
RECURSIVE PathUp(_)
PathUp(x) == IF x \in DOMAIN parent THEN {x} \cup PathUp(parent[x]) ELSE {x}

\* the options of the configurations referenced by a leaf below cart_key
\* that the applicability predicate accepts
ApplicableSet(cart_key, A) ==
    {s \in A : \E l \in Leaves :
        /\ cart_key \in PathUp(l)
        /\ leafConfig[l] # None
        /\ s \in Range(ConfigShipping(leafConfig[l]))}

NormCost(s) == IF cost[s] = NullCost THEN 0 ELSE cost[s]

\* the applicable candidates, in candidate order, of the last call
Candidates ==
    IF shipRes.op = "set"
    THEN get_available_shipping_skels_for_cart(shipRes.cart, applic)
    ELSE SelectSeq(ConfigShipping(leafConfig[shipRes.cart]),
                   LAMBDA s : s \in applic)

SubtreeLeaves(cart_key) == {l \in Leaves : cart_key \in PathUp(l)}
SubtreeCarts(cart_key)  == {n \in CartNodes : cart_key \in PathUp(n)}

\* the number of positions of seq that hold x
Count(seq, x) == Cardinality({i \in DOMAIN seq : seq[i] = x})

\* C11: the de-duplicated list of shipping configurations holds every
\* configuration referenced by a leaf of the subtree, each exactly once.
C11_DedupOncePerConfig ==
    walkPc = "done" =>
        /\ \A sc \in Configs : Count(dedupRes, sc) <= 1
        /\ Range(dedupRes) =
              {leafConfig[l] : l \in SubtreeLeaves(walkStart)} \ {None}

\* C11 witness: two leaves at different depths reference the same
\* configuration, the list holds it once
C11_Witness ==
    /\ walkPc = "done"
    /\ Len(walkConfigs) = 2
    /\ walkConfigs[1] = walkConfigs[2]
    /\ parent["l1"] # parent["l2"]
    /\ Len(dedupRes) = 1

C19_TraversalVisitsSubtreeOnce ==
    /\ (walkPc = "walk") ~> (walkPc = "done")
    /\ [](walkPc = "done" =>
            /\ \A n \in SubtreeCarts(walkStart) : Count(dequeued, n) = 1
            /\ \A l \in SubtreeLeaves(walkStart) : Count(inspected, l) = 1)
    /\ [](/\ Range(dequeued) \subseteq SubtreeCarts(walkStart)
          /\ Range(inspected) \subseteq SubtreeLeaves(walkStart))

\* C19 witness: the chain c1 -> c3 -> c4 -> l1 was walked from c1 while l2
\* hangs in the other cart
C19_Witness ==
    /\ walkPc = "done"
    /\ walkStart = "c1"
    /\ parent["c3"] = "c1" /\ parent["c4"] = "c3" /\ parent["l1"] = "c4"
    /\ parent["l2"] = "c2"
    /\ dequeued = <<"c1", "c3", "c4">>
    /\ inspected = <<"l1">>

(***************************************************************************)
(* Further properties of the shipping resolver (checked under SpecShip)    *)
(***************************************************************************)
\* the options of the leaf's article configuration that the predicate accepts
ArticleApplicable(leaf) ==
    IF leafConfig[leaf] = None THEN {}
    ELSE {s \in Range(ConfigShipping(leafConfig[leaf])) : s \in applic}

\* C13: choose_shipping_skel_for_article answers "not configured" exactly
\* for an article without a shipping configuration and "unresolvable" exactly
\* for a configured article none of whose options is applicable; the two
\* answers differ, and with an applicable option the answer is such an option.
C13_NotConfiguredVsUnresolvable ==
    shipRes.op = "choose" =>
        /\ (shipRes.chosen = NotConfigured) <=> (leafConfig[shipRes.cart] = None)
        /\ (shipRes.chosen = Unresolvable)
              <=> ( /\ leafConfig[shipRes.cart] # None
                    /\ ArticleApplicable(shipRes.cart) = {} )
        /\ NotConfigured # Unresolvable
        /\ ArticleApplicable(shipRes.cart) # {}
              => shipRes.chosen \in ArticleApplicable(shipRes.cart)

\* C13 witness: the article's configuration has options, the predicate
\* accepts none of them (only an option of another configuration)
C13_Witness ==
    /\ shipRes.op = "choose"
    /\ leafConfig[shipRes.cart] = "sc1"
    /\ applic = {"s3"}
    /\ shipRes.chosen = Unresolvable

\* C20: when no option is applicable to an existing cart,
\* set_shipping_to_cart ends in NotFound and leaves the selection untouched.
C20_NoApplicableIsNotFound ==
    ( /\ shipRes.op = "set"
      /\ shipRes.cart \in CartNodes
      /\ ApplicableSet(shipRes.cart, applic) = {} )
    => shipRes.status = "NotFound"

(***************************************************************************)
(* Further properties of the order lifecycle (checked under Spec)          *)
(***************************************************************************)
\* no registered provider carries the name
Unregistered(name) ==
    \A i \in DOMAIN payment_providers : payment_providers[i].name # name

\* C17: for an order whose payment provider matches no registered provider,
\* checkout_start and checkout_order end in the LookupError itself, with no
\* list of validation errors, and write nothing.
C17_UnknownProviderLookupError ==
    [][\A r \in Requests :
        ( /\ req[r].pc = "loaded"
          /\ req'[r] # req[r]
          /\ ~Falsy(req[r].skel.payment_provider)
          /\ Unregistered(req[r].skel.payment_provider) )
        => /\ req'[r].pc = "done"
           /\ req'[r].result.status = "LookupError"
           /\ req'[r].result.errors = <<>>
           /\ orders' = orders
      ]_vars

\* C17 witness: checkout_start and checkout_order on an order with the
\* provider "unknown" both ended in LookupError, the order is as created
C17_Witness ==
    /\ req["r1"].op = "checkout_start"
    /\ req["r2"].op = "checkout_order"
    /\ \A r \in Requests :
          /\ req[r].pc = "done"
          /\ req[r].key = "o1"
          /\ req[r].result.status = "LookupError"
    /\ orders["o1"].payment_provider = "unknown"
    /\ orders["o1"].order_uid = NoUid
    /\ ~orders["o1"].is_ordered

\* C18: two different orders never carry the same assigned order_uid.
C18_OrderUidUnique ==
    \A k1, k2 \in OrderKeys :
        ( /\ k1 # k2
          /\ orders[k1].order_uid # NoUid
          /\ orders[k2].order_uid # NoUid )
        => orders[k1].order_uid # orders[k2].order_uid

(***************************************************************************)
(* Properties of order_add (checked under SpecAdd)                         *)
(***************************************************************************)
\* the billing_address_key of the call resolves to an address of another type
NonBillingAddress(args) ==
    /\ args.billing_address_key \in AddressKeys
    /\ AddressType(args.billing_address_key) # BILLING

NewOrders == {k \in OrderKeys : ~orders[k].exists /\ orders'[k].exists}

\* C15: a successful order_add on the session cart leaves that cart detached
\* from the session with its data in place; the session association changes
\* only in a step that writes the order of that cart, and stays as it is when
\* the cart is not the session cart or the call fails.
C15_DetachOnSuccessOnly ==
    [][/\ (addRes' = "ok" /\ addArgs'.cart_key = sessionCart)
            => /\ sessionCart' # addArgs'.cart_key
               /\ cartTotal' = cartTotal
       /\ (addRes' # "ok" \/ addArgs'.cart_key # sessionCart)
            => sessionCart' = sessionCart
       /\ sessionCart' # sessionCart
            => \E k \in NewOrders : orders'[k].cart = sessionCart
      ]_vars

\* C15 witness: the order for the former session cart c1 is stored and no
\* cart is attached to the session
C15_Witness ==
    /\ addRes = "ok"
    /\ addArgs.cart_key = "c1"
    /\ orders["o1"].exists
    /\ orders["o1"].cart = "c1"
    /\ sessionCart = None

(***************************************************************************)
(* Properties of the freeze (checked under SpecFreeze)                     *)
(***************************************************************************)
\* C16: the total that a successful checkout_start stores is the total of the
\* order's cart at that checkout_start, and the stored total of a started
\* order never changes afterwards, whatever happens to the cart.
C16_TotalFrozenAtCheckoutStart ==
    [][/\ \A r \in Requests :
            Steps(r, "checkout_start", "validated")
                => orders'[req[r].key].total
                     = cartTotal[orders'[req[r].key].cart]
       /\ \A k \in OrderKeys :
            orders[k].order_uid # NoUid => orders'[k].total = orders[k].total
      ]_vars

====
